---- MODULE Spec2Model ----
(***************************************************************************)
(* Model of the interpact circuit breaker (src/src/lib.rs, errors.rs).     *)
(*                                                                         *)
(* execute takes `&mut self`, so the borrow checker admits one execute     *)
(* call at a time on a breaker: a single caller walks through the body of  *)
(* execute (pc), and the clock advances between calls and while the task   *)
(* runs.  The unit of the clock is coarse: the breaker's own bookkeeping   *)
(* takes no tick.                                                          *)
(***************************************************************************)
EXTENDS Integers, Sequences, FiniteSets, TLC

(* ---------------------------- bounds ----------------------------------- *)
MaxCalls == 7            \* admitted calls per behaviour (caps counts.requests)
MaxOptRequests == 2      \* largest Options.max_requests supplied
ShortDuration == 2       \* the one positive interval / timeout supplied
MaxOps == 3              \* value up to which a Counts operation is applied
MaxTime == ShortDuration + 1     \* last instant of the clock

(* ------------------------ program constants ---------------------------- *)
DefaultTimeout == 60     \* time::Duration::from_secs(60)
TripThreshold == 5       \* default_ready_to_trip: consecutive_failures > 5

VARIABLES
    max_requests,        \* CircuitBreaker.max_requests
    success_threshold,   \* CircuitBreaker.success_threshold
    interval,            \* CircuitBreaker.interval
    timeout,             \* CircuitBreaker.timeout
    state,               \* CircuitBreaker.state (inside its Mutex)
    counts,              \* CircuitBreaker.counts
    expires,             \* CircuitBreaker.expires
    opt_max_requests,    \* Options.max_requests as supplied to new
    now,                 \* the monotonic clock
    pc,                  \* position of the caller inside execute
    task_result,         \* what task() returned in the current call
    result,              \* what the last execute call returned
    invoked,             \* times task() ran during the current / last call
    streak,              \* consecutive execute calls whose task failed
    notifications        \* invocations of on_state_change, oldest first

vars == <<max_requests, success_threshold, interval, timeout, state, counts,
          expires, opt_max_requests, now, pc, task_result, result, invoked,
          streak, notifications>>

config == <<max_requests, success_threshold, interval, timeout,
            opt_max_requests, expires>>

(* ------------------------------ types ---------------------------------- *)
State == {"Closed", "Open", "HalfOpen"}

\* Option: None is the empty tuple, Some(x) is <<x>>
None == <<>>

Some(x) == <<x>>

Admitted == <<"Admit">>

StateOpenError == <<"Err", "StateOpenError">>

TooManyRequestsError == <<"Err", "TooManyRequestsError">>

\* the values a task can return: Ok(res) or Err(err)
TaskResults == {<<"Ok", "v1">>, <<"Err", "e1">>, <<"Err", "e2">>}

(* ------------------------------ Counts --------------------------------- *)
Counts_new ==
    [requests |-> 0, total_successes |-> 0, total_failures |-> 0,
     consecutive_successes |-> 0, consecutive_failures |-> 0]

Counts_requested(c) == [c EXCEPT !.requests = @ + 1]

\* The counters are u32.  A u32 is held as its two's-complement pattern,
\* because the checker's integers are 32-bit signed: 0, 1, 2, ... stand
\* for themselves and -1, -2, ... for u32::MAX, u32::MAX - 1, ...  On the
\* patterns `+= 1` is x + 1, and it overflows exactly at U32Max.
U32Max == -1

\* a <= b on the u32 values that the patterns a and b stand for
u32_le(a, b) == IF (a < 0) = (b < 0) THEN a <= b ELSE b < 0

Counts_failed(c) ==
    [c EXCEPT !.total_failures = @ + 1,
              !.consecutive_failures = @ + 1,
              !.consecutive_successes = 0]

Counts_succeeded(c) ==
    [c EXCEPT !.total_successes = @ + 1,
              !.consecutive_successes = @ + 1,
              !.consecutive_failures = 0]

Counts_clear(c) ==
    [requests |-> 0, total_successes |-> 0, total_failures |-> 0,
     consecutive_successes |-> 0, consecutive_failures |-> 0]

\* the Counts after k calls of failed() on Counts::new()
AfterFailures(k) ==
    [Counts_new EXCEPT !.total_failures = k, !.consecutive_failures = k]

default_ready_to_trip(c) == c.consecutive_failures > TripThreshold

(* --------------------------- construction ------------------------------ *)
Options ==
    [max_requests : 0..MaxOptRequests,
     success_threshold : {None} \cup {Some(n) : n \in 1..MaxOptRequests},
     interval : {0, ShortDuration},
     timeout : {0, ShortDuration}]

unwrap_or(opt, default) == IF opt = None THEN default ELSE opt[1]

\* let mr = if o.max_requests == 0 { o.max_requests } else { 1 };
normalized_max_requests(n) == IF n = 0 THEN n ELSE 1

new(o) ==
    LET mr == normalized_max_requests(o.max_requests) IN
    [max_requests |-> mr,
     success_threshold |-> unwrap_or(o.success_threshold, mr),
     interval |-> o.interval,
     timeout |-> IF o.timeout > 0 THEN o.timeout ELSE DefaultTimeout,
     state |-> "Closed",
     counts |-> Counts_new,
     expires |-> None]

\* the instant at which the breaker is built and its first generation
\* begins; the code begins no other (expires is never assigned)
ConstructedAt == 0

\* the breaker is cb, nothing has been called yet
Constructed(o, cb) ==
    /\ max_requests = cb.max_requests
    /\ success_threshold = cb.success_threshold
    /\ interval = cb.interval
    /\ timeout = cb.timeout
    /\ state = cb.state
    /\ counts = cb.counts
    /\ expires = cb.expires
    /\ opt_max_requests = o.max_requests
    /\ now = ConstructedAt
    /\ pc = "idle"
    /\ task_result = None
    /\ result = None
    /\ invoked = 0
    /\ streak = 0
    /\ notifications = <<>>

Init == \E o \in Options : Constructed(o, new(o))

\* a breaker built by new whose state field holds any value of the enum:
\* the starting point for the contracts of the Open and HalfOpen arms
InitAnyState ==
    \E o \in Options, s \in State :
        Constructed(o, [new(o) EXCEPT !.state = s])

(* ------------------------- private methods ----------------------------- *)
\* Instant::duration_since(self, earlier) with self read before earlier:
\* `later` tells whether the clock moved between the two Instant::now()
\* readings.  When it did, self is before earlier: the standard library
\* either saturates to zero or panics, depending on its version.
duration_since(self, earlier, later) ==
    IF later THEN {<<"ok", 0>>, <<"panic", 0>>} ELSE {<<"ok", self - earlier>>}

\* set_state locks the state and reads old_state; it stores nothing and
\* calls nothing
set_state(old_state, new_state) == old_state

\* a failure in Closed sent to probing: the wrong arm falls through to a
\* set_state that stores State::HalfOpen
failed_to_half_open(s) == IF s = "Closed" THEN "HalfOpen" ELSE s

\* CircuitBreaker::failed
failed(s) == IF s = "HalfOpen" THEN set_state(s, "Open") ELSE s

\* the match of execute on the state: Admitted or the error returned
admission(s, c, mr) ==
    CASE s = "Closed" -> Admitted
      [] s = "HalfOpen" ->
            IF c.requests > mr THEN TooManyRequestsError ELSE Admitted
      [] s = "Open" -> StateOpenError

\* a failed task reported to the caller as a rejection by the breaker
failed_return_rejects(tr) == StateOpenError

\* what execute returns once the task has returned an error
failed_return(tr) == <<"Ok", "Err", tr[2]>>

(* --------------------------- lock scopes ------------------------------- *)
\* the fields among state and counts that the step taken from position p
\* of execute reads or writes
Accessed(p) ==
    CASE p = "prepare" -> {"state"}
      [] p = "admit" -> {"state", "counts"}
      [] p = "requested" -> {"counts"}
      [] p = "report" -> {"state"}
      [] OTHER -> {}

\* whether the step taken from position p runs inside a block that holds
\* the guard of self.state.lock(): prepare_state, the match of execute
\* and failed / set_state do; counts.requested() and task() run after the
\* block of the match has ended
LockHeld(p) == p \in {"prepare", "admit", "report"}

(* ------------------------------ actions -------------------------------- *)
Tick ==
    /\ pc \in {"idle", "task"}
    /\ now < MaxTime
    /\ now' = now + 1
    /\ UNCHANGED <<config, state, counts, pc, task_result, result, invoked,
                   streak, notifications>>

\* a caller enters execute
Call ==
    /\ pc = "idle"
    /\ counts.requests < MaxCalls
    /\ pc' = "prepare"
    /\ task_result' = None
    /\ result' = None
    /\ invoked' = 0
    /\ UNCHANGED <<config, state, counts, now, streak, notifications>>

\* self.prepare_state()
PrepareState ==
    /\ pc = "prepare"
    /\ IF state = "Open"
       THEN \E later \in BOOLEAN :
            \E d \in duration_since(unwrap_or(expires, now), now, later) :
                IF d[1] = "panic"
                THEN /\ pc' = "panicked"
                     /\ result' = <<"panic", "duration_since">>
                     /\ state' = state
                ELSE /\ pc' = "admit"
                     /\ result' = result
                     /\ state' = IF d[2] > 0 THEN "HalfOpen" ELSE state
       ELSE /\ pc' = "admit"
            /\ UNCHANGED <<result, state>>
    /\ UNCHANGED <<config, counts, now, task_result, invoked, streak,
                   notifications>>

\* the task run before the match on the state
Admit_task_first ==
    /\ pc = "admit"
    /\ LET a == admission(state, counts, max_requests) IN
       IF a = Admitted
       THEN /\ pc' = "requested"
            /\ UNCHANGED <<result, streak, invoked>>
       ELSE /\ pc' = "idle"
            /\ result' = a
            /\ streak' = 0
            /\ invoked' = invoked + 1
    /\ UNCHANGED <<config, state, counts, now, task_result, notifications>>

\* counts.requested() called before the rejection returns
Admit_counts_rejected ==
    /\ pc = "admit"
    /\ LET a == admission(state, counts, max_requests) IN
       IF a = Admitted
       THEN /\ pc' = "requested"
            /\ UNCHANGED <<result, streak, counts>>
       ELSE /\ pc' = "idle"
            /\ result' = a
            /\ streak' = 0
            /\ counts' = Counts_requested(counts)
    /\ UNCHANGED <<config, state, now, task_result, invoked, notifications>>

\* the match on the state of execute
Admit ==
    /\ pc = "admit"
    /\ LET a == admission(state, counts, max_requests) IN
       IF a = Admitted
       THEN /\ pc' = "requested"
            /\ UNCHANGED <<result, streak>>
       ELSE /\ pc' = "idle"
            /\ result' = a
            /\ streak' = 0
    /\ UNCHANGED <<config, state, counts, now, task_result, invoked,
                   notifications>>

\* self.counts.requested()
Requested ==
    /\ pc = "requested"
    /\ counts' = Counts_requested(counts)
    /\ pc' = "task"
    /\ UNCHANGED <<config, state, now, task_result, result, invoked, streak,
                   notifications>>

\* let task_result = task();
RunTask ==
    /\ pc = "task"
    /\ \E tr \in TaskResults : task_result' = tr
    /\ invoked' = invoked + 1
    /\ pc' = "report"
    /\ UNCHANGED <<config, state, counts, now, result, streak, notifications>>

\* match task_result: Ok => self.succeeded() is unimplemented!() and
\* panics; Err => self.failed(), then Ok(Err(err)) is returned
Report ==
    /\ pc = "report"
    /\ IF task_result[1] = "Ok"
       THEN /\ pc' = "panicked"
            /\ result' = <<"panic", "unimplemented">>
            /\ streak' = 0
            /\ state' = state
       ELSE /\ state' = failed(state)
            /\ result' = failed_return(task_result)
            /\ streak' = streak + 1
            /\ pc' = "idle"
    /\ UNCHANGED <<config, counts, now, task_result, invoked, notifications>>

Next == Tick \/ Call \/ PrepareState \/ Admit \/ Requested \/ RunTask \/ Report

Spec == Init /\ [][Next]_vars

SpecAnyState == InitAnyState /\ [][Next]_vars

(* ------------------- the Counts operations on their own ---------------- *)
\* Counts::new(), or the Counts that u32::MAX - 1 calls of failed() leave
InitCounts ==
    \E c \in {Counts_new, AfterFailures(U32Max - 1)} :
    \E o \in {x \in Options : x.max_requests = 1 /\ x.interval = 0} :
        Constructed(o, [new(o) EXCEPT !.counts = c])

\* one operation of Counts; `overflows` tells whether one of its `+= 1`
\* overflows: the build then wraps (no overflow checks) or panics
CountsStep(overflows, after) ==
    /\ pc = "idle"
    /\ IF overflows
       THEN \E checked \in BOOLEAN :
                IF checked
                THEN /\ pc' = "panicked"
                     /\ result' = <<"panic", "overflow">>
                     /\ counts' = counts
                ELSE /\ counts' = after
                     /\ UNCHANGED <<pc, result>>
       ELSE /\ counts' = after
            /\ UNCHANGED <<pc, result>>
    /\ UNCHANGED <<config, state, now, task_result, invoked, streak,
                   notifications>>

CountsRequested ==
    /\ counts.requests < MaxOps
    /\ CountsStep(counts.requests = U32Max, Counts_requested(counts))

CountsFailed ==
    /\ counts.total_failures < MaxOps
    /\ CountsStep(U32Max \in {counts.total_failures,
                               counts.consecutive_failures},
                  Counts_failed(counts))

CountsSucceeded ==
    /\ counts.total_successes < MaxOps
    /\ CountsStep(U32Max \in {counts.total_successes,
                               counts.consecutive_successes},
                  Counts_succeeded(counts))

\* clear() assigns zeros: it cannot overflow
CountsClear ==
    /\ counts # Counts_new
    /\ CountsStep(FALSE, Counts_clear(counts))

NextCounts == CountsRequested \/ CountsFailed \/ CountsSucceeded \/ CountsClear

SpecCounts == InitCounts /\ [][NextCounts]_vars

(* ------------------------------ claims --------------------------------- *)
\* the step in which execute matches on task_result and returns
Reports == pc = "report" /\ pc' # "report"

\* C1: a fresh breaker with the default ready_to_trip is Open after six
\* consecutive failing calls, and the task of a seventh call is not run
\* (so no seventh consecutive failure is ever recorded).
C1_TripsAfterSixFailures ==
    /\ (pc = "idle" /\ streak >= TripThreshold + 1) => state = "Open"
    /\ streak <= TripThreshold + 1

C8_IntervalClearsCounts ==
    (/\ pc = "admit"
     /\ state = "Closed"
     /\ interval > 0
     /\ ~default_ready_to_trip(counts)
     /\ now >= ConstructedAt + interval)
        => (counts = Counts_new /\ notifications = <<>>)

\* C9: a call that returned StateOpen or TooManyRequests did not run the
\* task; a call that was admitted runs it exactly once.
C9_TaskRunsIffAdmitted ==
    /\ result \in {StateOpenError, TooManyRequestsError} => invoked = 0
    /\ pc \in {"prepare", "admit", "requested", "task"} => invoked = 0
    /\ pc = "report" => invoked = 1
    /\ (result # None /\ result[1] = "Ok") => invoked = 1
    /\ result = <<"panic", "unimplemented">> => invoked = 1

C9_Witness ==
    pc = "idle" /\ result = TooManyRequestsError /\ invoked = 0
        /\ counts.requests > 0

\* C10: when the task of an admitted call fails with error e, execute
\* returns Ok(Err(e)), whatever the state the call was admitted in.
C10_FailureIsPassedThrough ==
    [][(Reports /\ task_result[1] = "Err")
            => result' = <<"Ok", "Err", task_result[2]>>]_vars

C10_Witness ==
    pc = "idle" /\ state = "HalfOpen" /\ result = <<"Ok", "Err", "e2">>

\* C11: no execute call ends in a panic: every call returns, with the
\* task's own result when admitted and with a rejection otherwise.
C11_NoCallPanics == pc # "panicked"

\* C12: new stores the supplied max_requests when it is positive and 1
\* when it is 0, so the stored value is never 0.
C12_MaxRequestsNormalized ==
    max_requests = (IF opt_max_requests > 0 THEN opt_max_requests ELSE 1)

\* C13: when no admitted call is outstanding, requests equals
\* total_successes + total_failures.
C13_RequestsAreAccounted ==
    pc = "idle" => counts.requests
                     = counts.total_successes + counts.total_failures

C18_RejectionChangesNothing ==
    [][/\ pc \in {"idle", "prepare", "admit"}
              => (state' = state /\ counts' = counts)
       /\ counts' # counts => (pc = "requested" /\ pc' = "task")]_vars

C18_Witness ==
    pc = "idle" /\ result = StateOpenError /\ state = "Open"
        /\ counts = Counts_new

\* C16: every step of execute that reads or writes the state or the
\* Counts runs with the lock held, and the task runs without it.
C16_AccessesUnderLock ==
    /\ Accessed(pc) # {} => LockHeld(pc)
    /\ pc = "task" => ~LockHeld(pc)

\* C20: after any sequence of Counts operations from Counts::new(),
\* consecutive_successes and consecutive_failures are not both non-zero,
\* consecutive_successes <= total_successes and
\* consecutive_failures <= total_failures.
C20_ConsecutiveWithinTotals ==
    /\ ~(counts.consecutive_successes # 0 /\ counts.consecutive_failures # 0)
    /\ u32_le(counts.consecutive_successes, counts.total_successes)
    /\ u32_le(counts.consecutive_failures, counts.total_failures)

====
